---- MODULE Spec2Model ----
(***************************************************************************)
(* Model of src/main.py: the MotionDetector capture loop (run), the daily  *)
(* photo scheduler (daily_photo_scheduler), the shared send_photo          *)
(* coroutine and main's asyncio.gather, as cooperative tasks on one event  *)
(* loop.  A task runs from one await to the next without interleaving;     *)
(* `cpu` names the task that currently holds the event loop.               *)
(*                                                                         *)
(* Time is a wall clock in abstract ticks.  time.time() and datetime.now() *)
(* read it; asyncio.sleep counts elapsed ticks (the loop's monotonic       *)
(* clock), so a backward step of the wall clock does not lengthen a sleep. *)
(* A calendar day is DayLen ticks and DAILY_PHOTO_TIME is the tick of the  *)
(* day at which the daily photo is due.  A local variable of a coroutine   *)
(* is set back to its initial value once the code no longer reads it.      *)
(*                                                                         *)
(* Spec starts where main has constructed the MotionDetector and gather    *)
(* has scheduled both coroutines.  StartupSpec starts at the import of the *)
(* module, with every setting of the two environment variables, and runs   *)
(* the module-level validation and MotionDetector.__init__ first.          *)
(*                                                                         *)
(* A SIGINT reaches the program in one of two ways.  asyncio.run cancels   *)
(* main's task, and each coroutine gets CancelledError at its next await   *)
(* (Interrupt); or KeyboardInterrupt is raised in the code that is running *)
(* when the signal is handled, which for the capture loop is the blocking  *)
(* cap.read() call, and run's `except KeyboardInterrupt` catches it        *)
(* (RunKeyboardInterrupt).  Which of the two happens depends on the        *)
(* interpreter (asyncio.run handles SIGINT itself from Python 3.11 on).    *)
(***************************************************************************)
EXTENDS Integers, Sequences, FiniteSets, TLC

\* ---------------------------------------------------------------- bounds
MaxTime == 8        \* the wall clock runs over 0..MaxTime
DayLen == 4         \* ticks per calendar day (timedelta(days=1))
MaxFrames == 2      \* successful cap.read() calls in a run
MaxFires == 2       \* scheduler fires recorded in a run
MaxBack == 1        \* backward steps of the wall clock in a run
MaxStart == 4       \* the program starts at a wall-clock time in 0..MaxStart

\* ------------------------------------------------------------- constants
MIN_CONTOUR_AREA == 5000
SEND_INTERVAL == 3
DAILY_PHOTO_TIME == 2

Tasks == {"run", "sched"}
None == 0           \* latest_frame = None; frames are numbered from 1
Results == {"ok", "telegram_error", "error"}

VARIABLES
  clock,          \* wall clock (time.time(), datetime.now())
  cpu,            \* "none", "main", or the task running between two awaits
  pc,             \* pc[t]: where task t stands
  interrupted,    \* main's task has been cancelled (SIGINT)
  main_pc,        \* "import" | "main" | "constructed" | "gather" | "exited"
  token,          \* TELEGRAM_TOKEN = os.getenv('TELEGRAM_BOT_TOKEN')
  chat_id,        \* CHAT_ID = os.getenv('TELEGRAM_CHAT_ID')
  cap_opened,     \* cv2.VideoCapture(0) has been called
  exit_code,      \* the process's exit status, once main_pc = "exited"
  released,       \* number of cap.release() calls
  cause,          \* why run left its loop ("none" while it is looping)
  last_sent,      \* self.last_sent
  latest_frame,   \* self.latest_frame (None or a frame)
  frame,          \* run's local `frame`
  motion,         \* run's local `motion`
  current_time,   \* run's local `current_time`
  contours,       \* process_frame's region areas for the frame at the gate
  analysis_failed,\* process_frame raised and caught an exception for it
  now,            \* the scheduler's local `now`
  scheduled,      \* the scheduler's local `scheduled_datetime`
  remaining,      \* ticks left of the scheduler's asyncio.sleep
  sp_frame,       \* send_photo's parameter `frame`, per calling task
  result,         \* how the task's last send_photo call ended ("none" before)
  file,           \* content of 'motion.jpg' (None: no such file)
  photo,          \* content behind the task's open handle `photo` (None: closed)
  linked,         \* the task's open handle is on the file now at 'motion.jpg'
  carried,        \* the image the task's bot.send_photo call has delivered
  reads,          \* history: successful cap.read() calls so far
  attempts,       \* history: current_time of each send_photo call made by run
  fires,          \* history: per scheduler fire, the scheduled instant it was
                  \* for and the calendar day it happened on
  warnings,       \* history: "No frame available" warnings logged
  sinkCalls,      \* history: bot.send_photo calls started, per calling task
  sig_wait,       \* history: a SIGINT arrived while the scheduler was asleep,
                  \* and the scheduler has not ended since
  backs           \* history: backward steps of the wall clock

vars == <<clock, cpu, pc, interrupted, main_pc, token, chat_id, cap_opened,
          exit_code, released, cause, last_sent, latest_frame, frame, motion,
          current_time, contours, analysis_failed, now, scheduled, remaining,
          sp_frame, result, file, photo, linked, carried, reads, attempts,
          fires, warnings, sinkCalls, sig_wait, backs>>

envVars == <<clock, backs>>
cfgVars == <<token, chat_id, cap_opened, exit_code>>
mainVars == <<interrupted, main_pc, cfgVars>>
runVars == <<frame, motion, current_time, contours, analysis_failed>>
schedVars == <<now, scheduled, remaining>>
ioVars == <<photo, linked, carried>>
sendVars == <<sp_frame, result, file, sinkCalls, ioVars>>
histVars == <<reads, attempts, fires, warnings, sig_wait>>

\* ------------------------------------------------------- pure functions

\* os.getenv: an unset variable is None, a set one is a string of characters
Unset == [set |-> FALSE, val |-> <<>>]
Str(s) == [set |-> TRUE, val |-> s]

\* `not v` for v None or a string
Falsy(v) == ~v.set \/ v.val = <<>>

\* `ch in v` for a string v
Contains(v, ch) == \E i \in 1..Len(v.val) : v.val[i] = ch

\* line 20: the module-level test
CredentialsMissing(t, c) == Falsy(t) \/ Falsy(c)

\* line 76: the constructor's test of the token's format
TokenMalformed(t) == Falsy(t) \/ ~Contains(t, ":")

\* the settings of the two environment variables that are tried
TokenValues == {Unset, Str(<<>>), Str(<<"1", "a">>), Str(<<"1", ":", "a">>)}
ChatValues == {Unset, Str(<<>>), Str(<<"7">>)}

\* datetime.date() and the time of day of a wall-clock instant
DateOf(t) == t \div DayLen
TimeOf(t) == t % DayLen

\* datetime.combine(date, DAILY_PHOTO_TIME)
Combine(d) == d * DayLen + DAILY_PHOTO_TIME

\* mutant: today's slot is kept when `now` is exactly the scheduled time
ScheduledDatetime_Late(n) ==
  IF n > Combine(DateOf(n)) THEN Combine(DateOf(n)) + DayLen
                            ELSE Combine(DateOf(n))

\* lines 172-176: the next scheduled_datetime computed from `now`
ScheduledDatetime(n) ==
  IF n >= Combine(DateOf(n)) THEN Combine(DateOf(n)) + DayLen
                             ELSE Combine(DateOf(n))

\* mutants of process_frame: the threshold itself counts as motion; an
\* analysis failure is reported as motion
ProcessFrame_AtLeast(areas, fails) ==
  IF fails THEN FALSE ELSE \E a \in areas : a >= MIN_CONTOUR_AREA
ProcessFrame_FailOpen(areas, fails) ==
  IF fails THEN TRUE ELSE \E a \in areas : a > MIN_CONTOUR_AREA

\* lines 150-158, 160-162: any contour above the threshold; an analysis
\* failure is logged and reported as no motion
ProcessFrame(areas, fails) ==
  IF fails THEN FALSE ELSE \E a \in areas : a > MIN_CONTOUR_AREA

\* mutants of the gate: the comparison off by one; the interval not checked
ShouldSend_AtLeast(m, t, last) == m /\ (t - last) >= SEND_INTERVAL
ShouldSend_MotionOnly(m, t, last) == m

\* line 215: the rate limiter's gate
ShouldSend(m, t, last) == m /\ (t - last) > SEND_INTERVAL

\* where a task continues when its send_photo call returns
AfterSend(c) == IF c = "run" THEN "record" ELSE "compute"

ContourAreas == {MIN_CONTOUR_AREA - 1, MIN_CONTOUR_AREA, MIN_CONTOUR_AREA + 1}

\* ------------------------------------------------------------------ Init

\* what Init and BootInit have in common
InitCommon ==
  /\ clock \in 0..MaxStart
  /\ interrupted = FALSE
  /\ exit_code = 0
  /\ released = 0
  /\ cause = "none"
  /\ last_sent = 0
  /\ latest_frame = None
  /\ frame = None
  /\ motion = FALSE
  /\ current_time = 0
  /\ contours = {}
  /\ analysis_failed = FALSE
  /\ now = 0
  /\ scheduled = 0
  /\ remaining = 0
  /\ sp_frame = [t \in Tasks |-> None]
  /\ result = [t \in Tasks |-> "none"]
  /\ file = None
  /\ photo = [t \in Tasks |-> None]
  /\ linked = [t \in Tasks |-> FALSE]
  /\ carried = [t \in Tasks |-> None]
  /\ reads = 0
  /\ attempts = <<>>
  /\ fires = <<>>
  /\ warnings = 0
  /\ sinkCalls = [t \in Tasks |-> 0]
  /\ sig_wait = FALSE
  /\ backs = 0

\* the detector is constructed and gather has scheduled run and the scheduler
Init ==
  /\ InitCommon
  /\ cpu = "run"
  /\ pc = [t \in Tasks |-> IF t = "run" THEN "read" ELSE "start"]
  /\ main_pc = "gather"
  /\ token = Str(<<"1", ":", "a">>)
  /\ chat_id = Str(<<"7">>)
  /\ cap_opened = TRUE

\* the module is being imported; neither coroutine exists
BootInit ==
  /\ InitCommon
  /\ cpu = "main"
  /\ pc = [t \in Tasks |-> "unborn"]
  /\ main_pc = "import"
  /\ token \in TokenValues
  /\ chat_id \in ChatValues
  /\ cap_opened = FALSE

\* ------------------------------------------ startup (lines 16-21, 74-98)

\* lines 16-21: the module-level validation; an uncaught ValueError ends the
\* process with status 1
ModuleValidation ==
  /\ main_pc = "import"
  /\ IF CredentialsMissing(token, chat_id)
       THEN main_pc' = "exited" /\ exit_code' = 1
       ELSE main_pc' = "main" /\ exit_code' = exit_code
  /\ UNCHANGED <<envVars, cpu, pc, interrupted, token, chat_id, cap_opened,
                 released, cause, last_sent, latest_frame, runVars, schedVars,
                 sendVars, histVars>>

\* mutant: the camera is opened before the token is validated
MotionDetectorInit_CameraFirst ==
  /\ main_pc = "main"
  /\ cap_opened' = TRUE
  /\ IF TokenMalformed(token)
       THEN main_pc' = "exited" /\ exit_code' = 0
       ELSE main_pc' = "constructed" /\ exit_code' = exit_code
  /\ UNCHANGED <<envVars, cpu, pc, interrupted, token, chat_id,
                 released, cause, last_sent, latest_frame, runVars, schedVars,
                 sendVars, histVars>>

\* lines 233, 74-98, 240-241: MotionDetector(); a malformed token raises
\* ValueError before the camera is opened, main's `except ValueError` logs it
\* and main returns, so asyncio.run returns and the process ends with status 0
MotionDetectorInit ==
  /\ main_pc = "main"
  /\ IF TokenMalformed(token)
       THEN main_pc' = "exited" /\ exit_code' = 0 /\ cap_opened' = cap_opened
       ELSE main_pc' = "constructed" /\ exit_code' = exit_code
            /\ cap_opened' = TRUE
  /\ UNCHANGED <<envVars, cpu, pc, interrupted, token, chat_id,
                 released, cause, last_sent, latest_frame, runVars, schedVars,
                 sendVars, histVars>>

\* lines 236-239: gather schedules both coroutines; run gets the loop first
MainGather ==
  /\ main_pc = "constructed"
  /\ main_pc' = "gather"
  /\ pc' = [t \in Tasks |-> IF t = "run" THEN "read" ELSE "start"]
  /\ cpu' = "run"
  /\ UNCHANGED <<envVars, interrupted, cfgVars, released, cause, last_sent,
                 latest_frame, runVars, schedVars, sendVars, histVars>>

\* ------------------------------------------------------ run (lines 198-229)

\* mutant: the capture loop does not resume while a delivery started by the
\* scheduler is pending
RunWake_Blocked ==
  /\ pc["run"] = "sleep" /\ cpu = "none" /\ ~interrupted
  /\ pc["sched"] # "sp_net"
  /\ pc' = [pc EXCEPT !["run"] = "read"]
  /\ cpu' = "run"
  /\ result' = [result EXCEPT !["run"] = "none"]
  /\ UNCHANGED <<envVars, mainVars, released, cause, last_sent, latest_frame,
                 runVars, schedVars, sp_frame, file, sinkCalls, ioVars,
                 histVars>>

\* line 221 -> 204: the 0.1 s sleep is over and run gets the event loop
RunWake ==
  /\ pc["run"] = "sleep" /\ cpu = "none" /\ ~interrupted
  /\ pc' = [pc EXCEPT !["run"] = "read"]
  /\ cpu' = "run"
  /\ result' = [result EXCEPT !["run"] = "none"]
  /\ UNCHANGED <<envVars, mainVars, released, cause, last_sent, latest_frame,
                 runVars, schedVars, sp_frame, file, sinkCalls, ioVars,
                 histVars>>

\* line 204: cap.read() returns (True, frame)
RunReadOk ==
  /\ pc["run"] = "read" /\ cpu = "run"
  /\ reads < MaxFrames
  /\ reads' = reads + 1
  /\ frame' = reads + 1
  /\ pc' = [pc EXCEPT !["run"] = "publish"]
  /\ UNCHANGED <<envVars, mainVars, cpu, released, cause, last_sent,
                 latest_frame, motion, current_time, contours,
                 analysis_failed, schedVars, sendVars, attempts, fires,
                 warnings, sig_wait>>

\* mutant: the frame of a failed read is stored before ret is tested
RunReadFail_Overwrites ==
  /\ pc["run"] = "read" /\ cpu = "run"
  /\ cause' = "read_failed"
  /\ latest_frame' = None
  /\ pc' = [pc EXCEPT !["run"] = "release"]
  /\ UNCHANGED <<envVars, mainVars, cpu, released, last_sent, runVars,
                 schedVars, sendVars, histVars>>

\* lines 204-207: cap.read() returns ret = False; the loop breaks
RunReadFail ==
  /\ pc["run"] = "read" /\ cpu = "run"
  /\ cause' = "read_failed"
  /\ pc' = [pc EXCEPT !["run"] = "release"]
  /\ UNCHANGED <<envVars, mainVars, cpu, released, last_sent, latest_frame,
                 runVars, schedVars, sendVars, histVars>>

\* lines 204, 225-226: cap.read() raises; `except Exception` logs it
RunReadRaise ==
  /\ pc["run"] = "read" /\ cpu = "run"
  /\ cause' = "exception"
  /\ pc' = [pc EXCEPT !["run"] = "release"]
  /\ UNCHANGED <<envVars, mainVars, cpu, released, last_sent, latest_frame,
                 runVars, schedVars, sendVars, histVars>>

\* lines 204, 223-224: SIGINT is handled while run is in cap.read() and
\* KeyboardInterrupt is raised there; `except KeyboardInterrupt` logs it and
\* run goes on to its finally clause.  Nothing cancels the scheduler.
RunKeyboardInterrupt ==
  /\ pc["run"] = "read" /\ cpu = "run"
  /\ main_pc = "gather"
  /\ cause' = "interrupt"
  /\ sig_wait' = (sig_wait \/ pc["sched"] = "wait")
  /\ pc' = [pc EXCEPT !["run"] = "release"]
  /\ UNCHANGED <<envVars, mainVars, cpu, released, last_sent, latest_frame,
                 runVars, schedVars, sendVars, reads, attempts, fires,
                 warnings>>

\* line 210: self.latest_frame = frame.copy()
RunPublish ==
  /\ pc["run"] = "publish" /\ cpu = "run"
  /\ latest_frame' = frame
  /\ pc' = [pc EXCEPT !["run"] = "process"]
  /\ UNCHANGED <<envVars, mainVars, cpu, released, cause, last_sent, runVars,
                 schedVars, sendVars, histVars>>

\* line 212: motion = self.process_frame(frame)
RunProcess ==
  /\ pc["run"] = "process" /\ cpu = "run"
  /\ \E areas \in SUBSET ContourAreas, fails \in BOOLEAN :
       /\ motion' = ProcessFrame(areas, fails)
       /\ contours' = IF fails THEN {} ELSE areas
       /\ analysis_failed' = fails
  /\ pc' = [pc EXCEPT !["run"] = "gate"]
  /\ UNCHANGED <<envVars, mainVars, cpu, released, cause, last_sent,
                 latest_frame, frame, current_time, schedVars, sendVars,
                 reads, attempts, fires, warnings, sig_wait>>

\* lines 213-217: the gate lets the frame through; send_photo(frame) is called
RunGateSend ==
  /\ pc["run"] = "gate" /\ cpu = "run"
  /\ ShouldSend(motion, clock, last_sent)
  /\ current_time' = clock
  /\ sp_frame' = [sp_frame EXCEPT !["run"] = frame]
  /\ attempts' = Append(attempts, clock)
  /\ contours' = {} /\ analysis_failed' = FALSE
  /\ pc' = [pc EXCEPT !["run"] = "sp_write"]
  /\ UNCHANGED <<envVars, mainVars, cpu, released, cause, last_sent,
                 latest_frame, frame, motion, schedVars, result, file,
                 sinkCalls, ioVars, reads, fires, warnings, sig_wait>>

\* lines 213-215, 221: the gate is closed; run goes to sleep
RunGateSkip ==
  /\ pc["run"] = "gate" /\ cpu = "run"
  /\ ~ShouldSend(motion, clock, last_sent)
  /\ frame' = None /\ motion' = FALSE /\ current_time' = 0
  /\ contours' = {} /\ analysis_failed' = FALSE
  /\ pc' = [pc EXCEPT !["run"] = "sleep"]
  /\ cpu' = "none"
  /\ UNCHANGED <<envVars, mainVars, released, cause, last_sent, latest_frame,
                 schedVars, sendVars, histVars>>

\* mutant: last_sent is recorded only when the delivery succeeded
RunRecord_OnSuccess ==
  /\ pc["run"] = "record" /\ cpu = "run"
  /\ last_sent' = IF result["run"] = "ok" THEN current_time ELSE last_sent
  /\ frame' = None /\ motion' = FALSE /\ current_time' = 0
  /\ sp_frame' = [sp_frame EXCEPT !["run"] = None]
  /\ carried' = [carried EXCEPT !["run"] = None]
  /\ pc' = [pc EXCEPT !["run"] = "sleep"]
  /\ cpu' = "none"
  /\ UNCHANGED <<envVars, mainVars, released, cause, latest_frame, contours,
                 analysis_failed, schedVars, result, file, sinkCalls, photo,
                 linked, histVars>>

\* lines 218, 221: send_photo has returned; self.last_sent = current_time
RunRecord ==
  /\ pc["run"] = "record" /\ cpu = "run"
  /\ last_sent' = current_time
  /\ frame' = None /\ motion' = FALSE /\ current_time' = 0
  /\ sp_frame' = [sp_frame EXCEPT !["run"] = None]
  /\ carried' = [carried EXCEPT !["run"] = None]
  /\ pc' = [pc EXCEPT !["run"] = "sleep"]
  /\ cpu' = "none"
  /\ UNCHANGED <<envVars, mainVars, released, cause, latest_frame, contours,
                 analysis_failed, schedVars, result, file, sinkCalls, photo,
                 linked, histVars>>

\* lines 227-229: finally: self.cap.release(); run returns
RunRelease ==
  /\ pc["run"] = "release" /\ cpu = "run"
  /\ released' = released + 1
  /\ frame' = None /\ motion' = FALSE /\ current_time' = 0
  /\ sp_frame' = [sp_frame EXCEPT !["run"] = None]
  /\ pc' = [pc EXCEPT !["run"] = "done"]
  /\ cpu' = "none"
  /\ UNCHANGED <<envVars, mainVars, cause, last_sent, latest_frame, contours,
                 analysis_failed, schedVars, result, file, sinkCalls, ioVars,
                 histVars>>

\* the cancellation reaches run at its await (line 106 or 221): CancelledError
\* passes `except Exception`, the `with` block closes the file and the finally
\* clause runs
RunCancelled ==
  /\ interrupted /\ cpu = "none"
  /\ pc["run"] \in {"sleep", "sp_net"}
  /\ cause' = "cancelled"
  /\ photo' = [photo EXCEPT !["run"] = None]
  /\ linked' = [linked EXCEPT !["run"] = FALSE]
  /\ pc' = [pc EXCEPT !["run"] = "release"]
  /\ cpu' = "run"
  /\ UNCHANGED <<envVars, mainVars, released, last_sent, latest_frame,
                 runVars, schedVars, sp_frame, result, file, sinkCalls,
                 carried, histVars>>

\* ------------------------------------------------ send_photo (lines 100-129)

\* lines 104-106: the frame is written to 'motion.jpg', the file is opened and
\* bot.send_photo is awaited.  Writing to an existing file rewrites it in
\* place, so a handle another call holds on it shows the new content.
SendWriteOk(c) ==
  /\ pc[c] = "sp_write" /\ cpu = c
  /\ file' = sp_frame[c]
  /\ photo' = [d \in Tasks |-> IF d = c \/ linked[d] THEN sp_frame[c]
                                                    ELSE photo[d]]
  /\ linked' = [linked EXCEPT ![c] = TRUE]
  /\ sinkCalls' = [sinkCalls EXCEPT ![c] = @ + 1]
  /\ pc' = [pc EXCEPT ![c] = "sp_net"]
  /\ cpu' = "none"
  /\ UNCHANGED <<envVars, mainVars, released, cause, last_sent, latest_frame,
                 runVars, schedVars, sp_frame, result, carried, histVars>>

\* lines 104-105, 128-129: writing or opening the file raises; logged
SendWriteFail(c) ==
  /\ pc[c] = "sp_write" /\ cpu = c
  /\ result' = [result EXCEPT ![c] = "error"]
  /\ pc' = [pc EXCEPT ![c] = AfterSend(c)]
  /\ UNCHANGED <<envVars, mainVars, cpu, released, cause, last_sent,
                 latest_frame, runVars, schedVars, sp_frame, file, sinkCalls,
                 ioVars, histVars>>

\* mutant: a failed delivery is not caught in send_photo and ends the caller
SendComplete_Fatal(c, r) ==
  /\ pc[c] = "sp_net" /\ cpu = "none" /\ ~interrupted
  /\ result' = [result EXCEPT ![c] = r]
  /\ file' = IF r = "ok" THEN None ELSE file
  /\ carried' = [carried EXCEPT ![c] = IF r = "ok" THEN sp_frame[c] ELSE None]
  /\ photo' = [photo EXCEPT ![c] = None]
  /\ linked' = IF r = "ok" THEN [t \in Tasks |-> FALSE]
                           ELSE [linked EXCEPT ![c] = FALSE]
  /\ pc' = [pc EXCEPT ![c] = IF r = "ok" THEN AfterSend(c)
                             ELSE IF c = "run" THEN "release" ELSE "done"]
  /\ cause' = IF r # "ok" /\ c = "run" THEN "exception" ELSE cause
  /\ cpu' = IF r # "ok" /\ c = "sched" THEN "none" ELSE c
  /\ UNCHANGED <<envVars, mainVars, released, last_sent, latest_frame,
                 runVars, schedVars, sp_frame, sinkCalls, histVars>>

\* lines 106-129: bot.send_photo returns or raises; the `with` block closes
\* the file and on success 'motion.jpg' is removed.  The image a successful
\* call delivers is what the library read through the handle: the content at
\* the time of the call, or the content the handle shows later, while the call
\* is pending.
SendComplete(c, r) ==
  /\ pc[c] = "sp_net" /\ cpu = "none" /\ ~interrupted
  /\ result' = [result EXCEPT ![c] = r]
  /\ file' = IF r = "ok" THEN None ELSE file
  /\ \E img \in (IF r = "ok" THEN {sp_frame[c], photo[c]} ELSE {None}) :
       carried' = [carried EXCEPT ![c] = img]
  /\ photo' = [photo EXCEPT ![c] = None]
  /\ linked' = IF r = "ok" THEN [t \in Tasks |-> FALSE]
                           ELSE [linked EXCEPT ![c] = FALSE]
  /\ pc' = [pc EXCEPT ![c] = AfterSend(c)]
  /\ cpu' = c
  /\ UNCHANGED <<envVars, mainVars, released, cause, last_sent, latest_frame,
                 runVars, schedVars, sp_frame, sinkCalls, histVars>>

\* -------------------------------- daily_photo_scheduler (lines 164-196)

\* line 166: the scheduler task gets the event loop for the first time
SchedStart ==
  /\ pc["sched"] = "start" /\ cpu = "none" /\ ~interrupted
  /\ pc' = [pc EXCEPT !["sched"] = "compute"]
  /\ cpu' = "sched"
  /\ UNCHANGED <<envVars, mainVars, released, cause, last_sent, latest_frame,
                 runVars, schedVars, sendVars, histVars>>

\* lines 169-186: compute the next scheduled time and sleep until then
SchedCompute ==
  /\ pc["sched"] = "compute" /\ cpu = "sched"
  /\ now' = clock
  /\ scheduled' = ScheduledDatetime(clock)
  /\ remaining' = ScheduledDatetime(clock) - clock
  /\ sp_frame' = [sp_frame EXCEPT !["sched"] = None]
  /\ result' = [result EXCEPT !["sched"] = "none"]
  /\ carried' = [carried EXCEPT !["sched"] = None]
  /\ pc' = [pc EXCEPT !["sched"] = "wait"]
  /\ cpu' = "none"
  /\ UNCHANGED <<envVars, mainVars, released, cause, last_sent, latest_frame,
                 runVars, file, sinkCalls, photo, linked, histVars>>

\* mutant: the heartbeat is recorded as a notification in last_sent
SchedFireSend_Records ==
  /\ pc["sched"] = "wait" /\ cpu = "none" /\ ~interrupted
  /\ remaining = 0
  /\ latest_frame # None
  /\ Len(fires) < MaxFires
  /\ last_sent' = clock
  /\ sp_frame' = [sp_frame EXCEPT !["sched"] = latest_frame]
  /\ fires' = Append(fires, [inst |-> scheduled, date |-> DateOf(clock)])
  /\ now' = 0 /\ scheduled' = 0
  /\ pc' = [pc EXCEPT !["sched"] = "sp_write"]
  /\ cpu' = "sched"
  /\ UNCHANGED <<envVars, mainVars, released, cause, latest_frame,
                 runVars, remaining, result, file, sinkCalls, ioVars, reads,
                 attempts, warnings, sig_wait>>

\* lines 186-194: the sleep is over and a frame is held: send_photo is called
SchedFireSend ==
  /\ pc["sched"] = "wait" /\ cpu = "none" /\ ~interrupted
  /\ remaining = 0
  /\ latest_frame # None
  /\ Len(fires) < MaxFires
  /\ sp_frame' = [sp_frame EXCEPT !["sched"] = latest_frame]
  /\ fires' = Append(fires, [inst |-> scheduled, date |-> DateOf(clock)])
  /\ now' = 0 /\ scheduled' = 0
  /\ pc' = [pc EXCEPT !["sched"] = "sp_write"]
  /\ cpu' = "sched"
  /\ UNCHANGED <<envVars, mainVars, released, cause, last_sent, latest_frame,
                 runVars, remaining, result, file, sinkCalls, ioVars, reads,
                 attempts, warnings, sig_wait>>

\* mutant: the slot is not tested for None; send_photo is called with it
SchedFireWarn_Sends ==
  /\ pc["sched"] = "wait" /\ cpu = "none" /\ ~interrupted
  /\ remaining = 0
  /\ latest_frame = None
  /\ Len(fires) < MaxFires
  /\ sp_frame' = [sp_frame EXCEPT !["sched"] = latest_frame]
  /\ fires' = Append(fires, [inst |-> scheduled, date |-> DateOf(clock)])
  /\ now' = 0 /\ scheduled' = 0
  /\ pc' = [pc EXCEPT !["sched"] = "sp_write"]
  /\ cpu' = "sched"
  /\ UNCHANGED <<envVars, mainVars, released, cause, last_sent, latest_frame,
                 runVars, remaining, result, file, sinkCalls, ioVars, reads,
                 attempts, warnings, sig_wait>>

\* lines 186-189, 195-196: the sleep is over and no frame is held: a warning
SchedFireWarn ==
  /\ pc["sched"] = "wait" /\ cpu = "none" /\ ~interrupted
  /\ remaining = 0
  /\ latest_frame = None
  /\ Len(fires) < MaxFires
  /\ warnings' = warnings + 1
  /\ fires' = Append(fires, [inst |-> scheduled, date |-> DateOf(clock)])
  /\ now' = 0 /\ scheduled' = 0
  /\ pc' = [pc EXCEPT !["sched"] = "compute"]
  /\ cpu' = "sched"
  /\ UNCHANGED <<envVars, mainVars, released, cause, last_sent, latest_frame,
                 runVars, remaining, sendVars, reads, attempts, sig_wait>>

\* the cancellation reaches the scheduler at its await (line 186 or 106), or
\* before its first step; at line 106 the `with` block closes the file
SchedCancelled ==
  /\ interrupted /\ cpu = "none"
  /\ pc["sched"] \in {"start", "wait", "sp_net"}
  /\ photo' = [photo EXCEPT !["sched"] = None]
  /\ linked' = [linked EXCEPT !["sched"] = FALSE]
  /\ sig_wait' = FALSE
  /\ pc' = [pc EXCEPT !["sched"] = "done"]
  /\ UNCHANGED <<envVars, mainVars, cpu, released, cause, last_sent,
                 latest_frame, runVars, schedVars, sp_frame, result, file,
                 sinkCalls, carried, reads, attempts, fires, warnings>>

\* ------------------------------------------------- main (lines 231-246)

\* SIGINT: asyncio.run cancels main's task, and gather cancels both children
Interrupt ==
  /\ ~interrupted /\ main_pc = "gather"
  /\ interrupted' = TRUE
  /\ sig_wait' = (sig_wait \/ pc["sched"] = "wait")
  /\ UNCHANGED <<envVars, cpu, pc, main_pc, cfgVars, released, cause,
                 last_sent, latest_frame, runVars, schedVars, sendVars, reads,
                 attempts, fires, warnings>>

\* lines 236-239, 245-246: gather is over once both coroutines are; after a
\* cancellation asyncio.run raises KeyboardInterrupt and the process ends with
\* the status of a SIGINT (130), otherwise main returns and the status is 0
MainExit ==
  /\ main_pc = "gather"
  /\ pc["run"] = "done" /\ pc["sched"] = "done"
  /\ main_pc' = "exited"
  /\ exit_code' = IF interrupted THEN 130 ELSE 0
  /\ UNCHANGED <<envVars, cpu, pc, interrupted, token, chat_id, cap_opened,
                 released, cause, last_sent, latest_frame, runVars, schedVars,
                 sendVars, histVars>>

\* ------------------------------------------------------------ environment

\* a tick of time passes while the event loop is idle: both the wall clock and
\* the loop's clock advance (the code between two awaits takes no tick)
Tick ==
  /\ cpu = "none"
  /\ clock < MaxTime
  /\ clock' = clock + 1
  /\ remaining' = IF remaining > 0 THEN remaining - 1 ELSE 0
  /\ UNCHANGED <<backs, cpu, pc, mainVars, released, cause, last_sent,
                 latest_frame, runVars, now, scheduled, sendVars, histVars>>

\* the wall clock is set back one tick (clock adjustment); sleeps are unaffected
ClockBack ==
  /\ cpu = "none"
  /\ clock > 0 /\ backs < MaxBack
  /\ clock' = clock - 1
  /\ backs' = backs + 1
  /\ UNCHANGED <<cpu, pc, mainVars, released, cause, last_sent, latest_frame,
                 runVars, schedVars, sendVars, histVars>>

Next ==
  \/ RunWake \/ RunReadOk \/ RunReadFail \/ RunReadRaise
  \/ RunKeyboardInterrupt \/ RunPublish
  \/ RunProcess \/ RunGateSend \/ RunGateSkip \/ RunRecord \/ RunRelease
  \/ RunCancelled
  \/ \E c \in Tasks : SendWriteOk(c)
  \/ \E c \in Tasks : SendWriteFail(c)
  \/ \E c \in Tasks, r \in Results : SendComplete(c, r)
  \/ SchedStart \/ SchedCompute \/ SchedFireSend \/ SchedFireWarn
  \/ SchedCancelled
  \/ Interrupt \/ MainExit
  \/ Tick \/ ClockBack

Spec == Init /\ [][Next]_vars

\* the steps of the startup
BootNext == ModuleValidation \/ MotionDetectorInit \/ MainGather

\* the program from the import of the module on
StartupSpec == BootInit /\ [][BootNext \/ Next]_vars

\* the steps the capture loop takes without waiting for the network
RunLoopStep ==
  \/ RunWake \/ RunReadOk \/ RunReadFail \/ RunReadRaise \/ RunPublish
  \/ RunProcess \/ RunGateSend \/ RunGateSkip \/ RunRecord
  \/ SendWriteOk("run") \/ SendWriteFail("run")

LastAttempt == attempts[Len(attempts)]
LastFire == fires[Len(fires)]

\* a SIGINT has reached the program, in either way
InterruptSeen == interrupted \/ cause = "interrupt"

\* the outcomes of a send_photo call that failed
Failed == {"telegram_error", "error"}

\* ------------------------------------------------------------------ claims

\* C1: any two motion-triggered send_photo attempts are more than
\* SEND_INTERVAL apart: the later cycle's current_time exceeds the earlier
\* cycle's by more than SEND_INTERVAL.
C1_AttemptsMoreThanIntervalApart ==
  \A i, j \in 1..Len(attempts) :
    i < j => attempts[j] - attempts[i] > SEND_INTERVAL

\* two attempts have been made
C1_Witness == Len(attempts) = 2

\* C2: the gate lets a motion frame through iff now - lastSent > SEND_INTERVAL
\* or nothing has been sent yet; in particular the first motion frame after
\* startup is always let through.
C2_GateOpenIffElapsedOrNever ==
  [][(pc["run"] = "gate" /\ pc'["run"] # "gate")
       => ((pc'["run"] = "sp_write")
             <=> (motion /\ (attempts = <<>>
                             \/ clock - last_sent > SEND_INTERVAL)))]_vars

\* C3 as claimed: while any send_photo call is pending on the network, the
\* capture loop can take its next step towards cap.read().
C3_NoSendBlocksCapture ==
  ((\E c \in Tasks : pc[c] = "sp_net")
      /\ pc["run"] \notin {"release", "done"} /\ ~interrupted)
    => ENABLED RunLoopStep

\* C3 as amended: a send_photo call started by the scheduler that is pending
\* on the network does not block the capture loop, which can take its next
\* step; a motion-triggered send is awaited by the capture loop, which reads
\* no frame until that send_photo call has returned.
C3_SchedSendDoesNotBlockCapture ==
  /\ []((pc["sched"] = "sp_net"
           /\ pc["run"] \notin {"sp_net", "release", "done"} /\ ~interrupted)
          => ENABLED RunLoopStep)
  /\ [][pc["run"] = "sp_net" => reads' = reads]_vars

\* a frame newer than the one the scheduler is sending has been read while
\* that delivery is pending
C3_Witness ==
  pc["sched"] = "sp_net" /\ reads > sp_frame["sched"] /\ pc["run"] = "publish"

\* C4: once the capture loop has ended on a read failure or an exception, the
\* scheduler is stopped too: it fires no more.
C4_CaptureFailureStopsScheduler ==
  [][(pc["run"] = "done" /\ cause \in {"read_failed", "exception"})
       => fires' = fires]_vars

\* C5: latest_frame is empty until the first successful read and then is the
\* newest successfully read frame (between cap.read() and line 210 the one
\* before it); whenever the scheduler can run, it is the newest one.
C5_LatestFrameIsNewest ==
  /\ latest_frame = IF pc["run"] = "publish" THEN reads - 1 ELSE reads
  /\ cpu # "run" => latest_frame = reads

\* the scheduler has taken the second frame from the slot after a later read
\* failed
C5_Witness ==
  pc["sched"] = "sp_write" /\ sp_frame["sched"] = 2 /\ cause = "read_failed"

\* C6: the computed next fire is the next occurrence of DAILY_PHOTO_TIME
\* strictly after now: today's when now is before it, tomorrow's when now is
\* at or after it; the wait is positive and at most a day.
C6_NextFireStrictlyAfterNow ==
  pc["sched"] = "wait" =>
    /\ scheduled > now
    /\ scheduled - now <= DayLen
    /\ TimeOf(scheduled) = DAILY_PHOTO_TIME
    /\ TimeOf(now) < DAILY_PHOTO_TIME => DateOf(scheduled) = DateOf(now)
    /\ TimeOf(now) >= DAILY_PHOTO_TIME => DateOf(scheduled) = DateOf(now) + 1
    /\ remaining <= scheduled - now

\* computed at exactly the scheduled time: the next fire is a day later
C6_Witness ==
  /\ pc["sched"] = "wait"
  /\ TimeOf(now) = DAILY_PHOTO_TIME
  /\ scheduled = now + DayLen

\* C7: after every fire the next fire is the scheduled time of the calendar
\* day after the fire's; no two fires are for the same scheduled instant and
\* no two fires happen on the same calendar day.
C7_OneFirePerDay ==
  /\ \A i, j \in 1..Len(fires) :
       i < j => /\ fires[i].inst # fires[j].inst
                /\ fires[i].date # fires[j].date
  /\ (pc["sched"] = "wait" /\ fires # <<>>)
       => scheduled = Combine(LastFire.date + 1)

\* C8: a fire with an empty slot logs one warning, calls neither send_photo
\* nor the sink, and goes back to computing the next wait; a fire with a frame
\* calls send_photo once, with the frame held, and logs no warning.
C8_FireWarnsOrSendsOnce ==
  /\ [][Len(fires') = Len(fires) + 1 =>
          IF latest_frame = None
            THEN /\ warnings' = warnings + 1
                 /\ sinkCalls' = sinkCalls
                 /\ sp_frame'["sched"] = None
                 /\ pc'["sched"] = "compute"
            ELSE /\ warnings' = warnings
                 /\ sp_frame'["sched"] = latest_frame
                 /\ pc'["sched"] = "sp_write"]_vars
  /\ [](warnings <= Len(fires)
        /\ sinkCalls["sched"] <= Len(fires) - warnings)

\* the scheduler fired with an empty slot and is waiting for the next day
C8_Witness ==
  /\ Len(fires) = 1 /\ warnings = 1 /\ sinkCalls["sched"] = 0
  /\ pc["sched"] = "wait"

\* C9: once a motion-triggered send_photo call has returned, whatever its
\* outcome, last_sent is that cycle's current_time.
C9_AttemptConsumesCooldown ==
  (attempts # <<>> /\ cause # "cancelled"
     /\ pc["run"] \notin {"sp_write", "sp_net", "record"})
    => last_sent = LastAttempt

\* a send that failed has been recorded
C9_Witness ==
  /\ pc["run"] = "sleep"
  /\ result["run"] \in {"telegram_error", "error"}
  /\ last_sent = LastAttempt

\* C10: last_sent never decreases.
C10_LastSentNeverDecreases == [][last_sent' >= last_sent]_vars

\* a frame has been processed with the wall clock set back below last_sent
C10_Witness ==
  /\ pc["run"] = "sleep" /\ reads = 2 /\ Len(attempts) = 1
  /\ clock < last_sent


\* C11: however the capture loop ends (interrupt or cancellation, read
\* failure, exception), cap.release() is called exactly once; and once an
\* interrupt has arrived or the camera is released, cap.read() returns no
\* further frame.
C11_ReleasedOnceNoReadAfterInterrupt ==
  /\ [](released <= 1 /\ (pc["run"] = "done" => released = 1))
  /\ [][(InterruptSeen \/ released > 0) => reads' = reads]_vars

\* C12: after an interrupt that arrived while the scheduler was suspended in
\* its wait, the scheduler leaves the wait only by ending: it fires no more
\* and starts no bot.send_photo call.
C12_InterruptInWaitStopsScheduler ==
  /\ [](sig_wait => pc["sched"] = "wait")
  /\ [][sig_wait => (fires' = fires
                     /\ sinkCalls'["sched"] = sinkCalls["sched"])]_vars

\* C13: a frame whose analysis failed is reported as no motion; its cycle
\* ends in the sleep before the next read, with no send_photo call, no sink
\* call, last_sent unchanged and the loop not left.
C13_AnalysisFailureIsNoMotion ==
  /\ []((pc["run"] = "gate" /\ analysis_failed) => ~motion)
  /\ [][(pc["run"] = "gate" /\ analysis_failed /\ pc'["run"] # "gate")
          => /\ pc'["run"] = "sleep"
             /\ attempts' = attempts
             /\ sinkCalls' = sinkCalls
             /\ last_sent' = last_sent
             /\ cause' = "none" /\ released' = 0]_vars

\* the analysis of a frame failed at a time when the gate's interval had
\* elapsed
C13_Witness ==
  /\ pc["run"] = "gate" /\ analysis_failed
  /\ clock - last_sent > SEND_INTERVAL

\* C14: after a send_photo call that failed, in the transport or before it,
\* the caller has not ended: the capture loop is at line 218 or in its sleep
\* (unless a cancellation ended it there), the scheduler is back at computing
\* its next wait; the step after the failed call takes the capture loop to its
\* sleep and the scheduler to its wait.
C14_DeliveryFailureNotFatal ==
  /\ [](/\ result["run"] \in Failed
             => (pc["run"] \in {"record", "sleep"} \/ cause = "cancelled")
        /\ result["sched"] \in Failed => pc["sched"] = "compute")
  /\ [][\A c \in Tasks :
          (result[c] \in Failed /\ pc[c] = AfterSend(c) /\ pc'[c] # pc[c])
            => pc'[c] = (IF c = "run" THEN "sleep" ELSE "wait")]_vars

\* a delivery of the capture loop failed before the transport and it sleeps;
\* a delivery of the scheduler failed in the transport and it goes on
C14_Witness ==
  /\ result["run"] = "error" /\ pc["run"] = "sleep"
  /\ result["sched"] = "telegram_error" /\ pc["sched"] = "compute"

\* C15: in a stream whose only frame with motion is its first frame, a
\* notification is attempted in that frame's cycle, it is the only one, it is
\* given that frame, and the image delivered is that frame.
C15_SingleMotionFrameNotifiedOnce ==
  /\ [][(pc["run"] = "gate" /\ pc'["run"] # "gate" /\ reads = 1 /\ motion)
          => /\ pc'["run"] = "sp_write"
             /\ sp_frame'["run"] = frame
             /\ Len(attempts') = 1]_vars
  /\ []((pc["run"] = "record" /\ result["run"] = "ok" /\ reads = 1)
          => carried["run"] = sp_frame["run"])

\* C16: with the analysis not failing, process_frame returns True iff some
\* region's area is greater than MIN_CONTOUR_AREA: True with a region of
\* MIN_CONTOUR_AREA + 1, False when the largest region is exactly
\* MIN_CONTOUR_AREA, False without any region.
C16_MotionIffRegionAboveThreshold ==
  (pc["run"] = "gate" /\ ~analysis_failed) =>
     /\ motion <=> (\E a \in contours : a >= MIN_CONTOUR_AREA + 1)
     /\ (MIN_CONTOUR_AREA + 1) \in contours => motion
     /\ (\A a \in contours : a <= MIN_CONTOUR_AREA) => ~motion
     /\ contours = {} => ~motion

\* the largest region of the frame is exactly MIN_CONTOUR_AREA
C16_Witness ==
  /\ pc["run"] = "gate" /\ ~analysis_failed
  /\ contours = {MIN_CONTOUR_AREA - 1, MIN_CONTOUR_AREA}
  /\ ~motion

\* a startup configuration failure: a credential is absent (unset or empty),
\* or the token is present and has no ':'
TokenLacksColon == token.set /\ \A i \in 1..Len(token.val) : token.val[i] # ":"
StartupConfigFailure ==
  \/ ~token.set \/ token.val = <<>>
  \/ ~chat_id.set \/ chat_id.val = <<>>
  \/ TokenLacksColon

\* C17: the process ends with a non-zero status on every startup
\* configuration failure, and with status 0 only after a clean shutdown (the
\* configuration was accepted and the camera was opened and released).
C17_ExitCodeReflectsStartup ==
  main_pc = "exited" =>
    /\ StartupConfigFailure => exit_code # 0
    /\ exit_code = 0 => (~StartupConfigFailure /\ cap_opened /\ released = 1)

\* C18: with a credential absent or the token malformed, the camera is never
\* opened, no frame is read, neither coroutine is started, and no
\* notification is attempted.
C18_StartupFailsFast ==
  StartupConfigFailure =>
    /\ ~cap_opened /\ reads = 0 /\ released = 0
    /\ \A t \in Tasks : pc[t] = "unborn" /\ sinkCalls[t] = 0
    /\ attempts = <<>> /\ fires = <<>> /\ warnings = 0
    /\ main_pc \in {"import", "main", "exited"}

\* both credentials are present, the token has no ':' and the constructor has
\* rejected it
C18_Witness ==
  /\ main_pc = "exited"
  /\ ~CredentialsMissing(token, chat_id) /\ TokenLacksColon

C20_SchedulerLeavesCooldownAlone ==
  [][(pc'["sched"] # pc["sched"] \/ fires' # fires)
       => (last_sent' = last_sent /\ latest_frame' = latest_frame)]_vars

\* the scheduler has fired with a frame at its scheduled instant and, at that
\* same instant, the gate has let a motion frame through
C20_Witness ==
  /\ fires # <<>> /\ backs = 0 /\ LastFire.inst = clock
  /\ sinkCalls["sched"] >= 1
  /\ pc["run"] = "sp_write"

====
